---- MODULE Spec2Model ----
(***************************************************************************)
(* The streaming connection manager of valr-go (api/streaming).            *)
(*                                                                         *)
(* One Conn handle, its supervisor goroutine (manageForever/connect), the  *)
(* sendPings goroutine started for every session, and a caller that dials, *)
(* subscribes and closes.  Time is discrete; one unit is pingInterval      *)
(* (30 s), so readTimeout (one minute) is two units.  Timers count down    *)
(* (readLeft, pingLeft, sleepLeft) or up with saturation (sinceAttempt,    *)
(* sinceClose).  Time passes only while every goroutine is blocked.        *)
(*                                                                         *)
(* Spec is the program as its example main runs it.  UrlSpec lets the      *)
(* address connect dials range over other URLs, NilCallbackSpec lets Dial  *)
(* be called without the update callback option, FairSpec adds the         *)
(* scheduling of the goroutines.  RestSpec is the REST client (Client.do   *)
(* and its polling caller), LimiterSpec the rate limiter; each leaves the  *)
(* variables of the others unchanged.                                      *)
(***************************************************************************)
EXTENDS Naturals, Sequences, FiniteSets

\* ------------------------------------------------------------- bounds
MaxSessions == 2   \* successful dials explored
MaxAttempts == 2   \* cap of backoffParams.attempts
MaxSubs == 1       \* SubscribeToMarkets calls explored
MaxCloses == 2     \* Close calls counted
MaxBackoff == 2    \* cap of the backoff policy, in units
AttemptResetOpt == 3 \* Conn.attemptReset as configured, in units
MaxCalls == 2      \* calls of Client.do explored
MaxCallers == 3    \* goroutines calling RateLimiter.Wait
MaxWaits == 5      \* RateLimiter.Wait calls explored
MaxResets == 2     \* resetCount rounds explored
MaxPerIntervalOpt == 2 \* RateLimiter.maxPerInterval as configured

\* ---------------------------------------------------- program constants
pingInterval == 1
readTimeout == 2

Creds == {"", "key"}
PairLists == {<<"BTCZAR">>, <<"BTCZAR", "ETHZAR">>}
Sessions == 1..MaxSessions
Callers == 1..MaxCallers

\* The address connect dials, and other addresses GetAuthHeaders may be
\* given.
\* A URL is its scheme (empty: none before "://"), its host and its path.
tradeWebSocketAddr ==
    [scheme |-> "wss", host |-> "api.valr.com", path |-> "/ws/trade"]
Urls == {tradeWebSocketAddr,
         [scheme |-> "https", host |-> "api.valr.com", path |-> "/ws/trade"],
         [scheme |-> "ftp", host |-> "api.valr.com", path |-> "/ws/trade"],
         [scheme |-> "", host |-> "api.valr.com", path |-> "/ws/trade"]}

\* The arguments and the server's answers of a REST call.
Methods == {"GET", "POST"}
StatusCodes == {200, 201, 400, 429, 500}
Bodies == {"json", "garbage"}
AuthHeaders == {"X-VALR-API-KEY", "X-VALR-SIGNATURE", "X-VALR-TIMESTAMP"}

\* The kinds of inbound frame ReadMessage can return to connect.
\* "X_bad" is a frame whose type field is X and whose other fields do not
\* have the shape of an X message.
FrameKinds == {"keepalive", "badjson", "NEW_TRADE", "NEW_TRADE_bad",
               "AUTHENTICATED", "AUTHENTICATED_bad", "SUBSCRIBED",
               "SUBSCRIBED_bad", "unknown"}

VARIABLES
    keyID, keySecret, \* the arguments of the last Dial call
    dialed,           \* "none" | "err" | "ok": what Dial returned
    closed,           \* Conn.closed
    closeCalls,       \* Close calls that have returned (saturating)
    supPc,            \* position of manageForever/connect
    attempts,         \* backoffParams.attempts
    sinceAttempt,     \* time since backoffParams.lastAttempt (saturating)
    ws,               \* Conn.ws: 0 is nil, else the session dialed last
    wsOpen,           \* sessions whose transport is not closed
    cancelled,        \* sessions whose context has been cancelled
    pinger,           \* position of each session's sendPings goroutine
    pingLeft,         \* time until each session's pingTicker fires
    deadlineSet,      \* a read deadline is set on the transport of ws
    readLeft,         \* time until that read deadline
    pongPending,      \* a ping was written and the pong is not yet read
    sleepLeft,        \* time left of manageForever's time.Sleep(dt)
    sinceClose,       \* time since the first Close (saturating)
    callerPc,         \* "idle" | "sending": SubscribeToMarkets in progress
    pending,          \* the pairs of the call in progress
    pendingOffline,   \* that call was made while no session was live
    subCalls,         \* SubscribeToMarkets calls made
    sentSubs,         \* per session, the SUBSCRIBE frames written to it
    lastFrame,        \* what ReadMessage returned last to connect: a
                      \* frame kind, "timeout", or "none" before any
    cbActive,         \* invocations of the update callback in progress
    prevAttempts,     \* backoffParams.attempts on entry to the last
                      \* calculateBackoff
    writeFailed,      \* a write to the session dialed last has failed
    unknownSeen,      \* since connect was entered, a frame of unknown type
                      \* was handled
    restPc,           \* position of the REST caller and of Client.do
    restMethod,       \* do's method argument
    restAuth,         \* do's auth argument
    restHeaders,      \* the headers set on httpReq
    restStatus,       \* httpRes.StatusCode (0: no response)
    restBody,         \* resBody: "json" decodes into res, "garbage" not
    restSent,         \* httpClient.Do calls made by the do call in progress
    restDecoded,      \* json.Unmarshal(resBody, res) was called by it
    restErr,          \* what the last do call returned
    restCalls,        \* do calls made
    ctxDone,          \* the caller's context is cancelled
    addr,             \* the address connect dials (tradeWebSocketAddr)
    updateCallback,   \* Conn.updateCallback is set (not nil)
    requestCount,     \* RateLimiter.requestCount
    waitPc,           \* per caller, its position in RateLimiter.Wait
    admitted,         \* Wait calls that returned since the last reset
    resets,           \* resetCount rounds done
    waitCalls         \* Wait calls made

vars == <<keyID, keySecret, dialed, closed, closeCalls, supPc, attempts,
          sinceAttempt, ws, wsOpen, cancelled, pinger, pingLeft, deadlineSet,
          readLeft, pongPending, sleepLeft, sinceClose, callerPc, pending,
          pendingOffline, subCalls, sentSubs, lastFrame, cbActive,
          prevAttempts, writeFailed, unknownSeen, restPc, restMethod,
          restAuth, restHeaders, restStatus, restBody, restSent, restDecoded,
          restErr, restCalls, ctxDone, addr, updateCallback, requestCount,
          waitPc, admitted, resets, waitCalls>>

handleVars == <<keyID, keySecret, dialed, closed>>
supVars == <<supPc, attempts, sinceAttempt, sleepLeft>>
sessVars == <<ws, wsOpen, cancelled, deadlineSet, readLeft, pongPending>>
pingVars == <<pinger, pingLeft>>
callVars == <<callerPc, pending, pendingOffline, subCalls>>
obsVars == <<lastFrame, cbActive, prevAttempts, writeFailed, unknownSeen>>
restVars == <<restPc, restMethod, restAuth, restHeaders, restStatus, restBody,
              restSent, restDecoded, restErr, restCalls, ctxDone>>
cfgVars == <<addr, updateCallback>>
limVars == <<requestCount, waitPc, admitted, resets, waitCalls>>
streamVars == <<handleVars, closeCalls, sinceClose, sentSubs, supVars,
                sessVars, pingVars, callVars, obsVars>>

Min(a, b) == IF a <= b THEN a ELSE b

\* ------------------------------------------------------------ helpers

\* Conn.IsClosed: the flag, read under the lock.
IsClosed == closed

\* Conn.reset: takes and releases the lock, changes nothing.
reset(c) == c

\* getProtocol: url.Parse fails on a URL with no scheme before "://",
\* else the scheme is returned.
getProtocol(rawurl) ==
    IF rawurl.scheme = "" THEN [err |-> TRUE, scheme |-> ""]
                          ELSE [err |-> FALSE, scheme |-> rawurl.scheme]

\* GetAuthHeaders: the path to sign is the URL without its wss or https
\* origin; any other scheme, and a URL that does not parse, is an error.
GetAuthHeaders(rawurl) ==
    CASE getProtocol(rawurl).err -> [err |-> TRUE, signedPath |-> ""]
      [] getProtocol(rawurl).scheme = "wss" ->
           [err |-> FALSE, signedPath |-> rawurl.path]
      [] getProtocol(rawurl).scheme = "https" ->
           [err |-> FALSE, signedPath |-> rawurl.path]
      [] OTHER -> [err |-> TRUE, signedPath |-> ""]

\* websocket.DefaultDialer.Dial opens a transport for ws and wss URLs only.
Dialable(rawurl) == rawurl.scheme \in {"ws", "wss"}

\* The process runs: no goroutine has panicked.
Running == supPc # "panicked"

\* The session is being served: connect is inside its read loop.
Serving == supPc \in {"loop", "reading", "callback"}

\* The payload sendPings builds for a subscription request.
SubscribeFrame(pairs) ==
    [type |-> "SUBSCRIBE", event |-> "NEW_TRADE", pairs |-> pairs]

\* The backoff policy: fixed growth per attempt, capped.
backoffHandler(attempt) == Min(attempt, MaxBackoff)

\* A calculateBackoff that also starts afresh after a session was
\* established.
NextAttemptsResetOnSuccess ==
    (IF sinceAttempt >= AttemptResetOpt \/ ws # 0 THEN 0 ELSE attempts) + 1

\* A calculateBackoff that never starts afresh.
NextAttemptsNoReset == attempts + 1

\* A calculateBackoff that counts the first failure of an episode only.
NextAttemptsStuck ==
    IF sinceAttempt >= AttemptResetOpt \/ attempts = 0 THEN 1 ELSE attempts

\* calculateBackoff's new attempt count: reset after a quiet period, then
\* incremented.
NextAttempts == (IF sinceAttempt >= AttemptResetOpt THEN 0 ELSE attempts) + 1

InitCore ==
    /\ keyID = "" /\ keySecret = ""
    /\ dialed = "none"
    /\ closed = FALSE
    /\ closeCalls = 0
    /\ supPc = "idle"
    /\ attempts = 0
    /\ sinceAttempt = AttemptResetOpt
    /\ ws = 0
    /\ wsOpen = {}
    /\ cancelled = {}
    /\ pinger = [s \in Sessions |-> "none"]
    /\ pingLeft = [s \in Sessions |-> 0]
    /\ deadlineSet = FALSE
    /\ readLeft = 0
    /\ pongPending = FALSE
    /\ sleepLeft = 0
    /\ sinceClose = 0
    /\ callerPc = "idle"
    /\ pending = <<>>
    /\ pendingOffline = FALSE
    /\ subCalls = 0
    /\ sentSubs = [s \in Sessions |-> <<>>]
    /\ lastFrame = "none"
    /\ cbActive = 0
    /\ prevAttempts = 0
    /\ writeFailed = FALSE
    /\ unknownSeen = FALSE
    /\ restPc = "select"
    /\ restMethod = "" /\ restAuth = FALSE
    /\ restHeaders = {}
    /\ restStatus = 0 /\ restBody = ""
    /\ restSent = 0
    /\ restDecoded = FALSE
    /\ restErr = "none"
    /\ restCalls = 0
    /\ ctxDone = FALSE
    /\ requestCount = 0
    /\ waitPc = [c \in Callers |-> "idle"]
    /\ admitted = 0
    /\ resets = 0
    /\ waitCalls = 0

\* The program as its example main runs it: the trade address and an
\* update callback given to Dial.
Init ==
    /\ InitCore
    /\ addr = tradeWebSocketAddr
    /\ updateCallback = TRUE

\* ------------------------------------------------------------- caller

\* A credentials check that forgets the secret.
DialStartsKeyOnly(k, s) == k # ""

\* Dial's credentials check: both the key id and the secret are non-empty.
DialStarts(k, s) == k # "" /\ s # ""

\* Dial: rejects empty credentials, else builds the Conn and starts
\* manageForever.

Dial(k, s) ==
    /\ dialed # "ok"
    /\ keyID' = k /\ keySecret' = s
    /\ IF DialStarts(k, s)
         THEN dialed' = "ok" /\ supPc' = "dialing"
         ELSE dialed' = "err" /\ supPc' = supPc
    /\ UNCHANGED <<closed, closeCalls, attempts, sinceAttempt, sleepLeft,
                   sinceClose, sentSubs>>
    /\ UNCHANGED <<sessVars, pingVars, callVars>>
    /\ UNCHANGED obsVars
    /\ UNCHANGED restVars
    /\ UNCHANGED <<cfgVars, limVars>>

\* A Close that flips the flag instead of setting it.
CloseFlagToggled == ~closed

\* The value Close stores in Conn.closed.
CloseFlag == TRUE

\* Close: sets the flag under the lock, then reset().

Close ==
    /\ Running
    /\ dialed = "ok"
    /\ closed' = reset(CloseFlag)
    /\ closeCalls' = Min(closeCalls + 1, MaxCloses)
    /\ sinceClose' = IF closed THEN sinceClose ELSE 0
    /\ UNCHANGED <<keyID, keySecret, dialed, sentSubs>>
    /\ UNCHANGED <<supVars, sessVars, pingVars, callVars>>
    /\ UNCHANGED obsVars
    /\ UNCHANGED restVars
    /\ UNCHANGED <<cfgVars, limVars>>

\* SubscribeToMarkets: the send on the unbuffered SubscribeCh begins.
SubscribeCall(pairs) ==
    /\ Running
    /\ dialed = "ok"
    /\ callerPc = "idle"
    /\ subCalls < MaxSubs
    /\ callerPc' = "sending"
    /\ pending' = pairs
    /\ pendingOffline' = ~Serving
    /\ subCalls' = subCalls + 1
    /\ UNCHANGED <<handleVars, closeCalls, sinceClose, sentSubs>>
    /\ UNCHANGED <<supVars, sessVars, pingVars>>
    /\ UNCHANGED obsVars
    /\ UNCHANGED restVars
    /\ UNCHANGED <<cfgVars, limVars>>

\* --------------------------------------------------------- supervisor

\* The session id a successful dial creates: the first one never used.
NextSession == CHOOSE s \in Sessions :
    /\ pinger[s] = "none"
    /\ \A t \in Sessions : t < s => pinger[t] # "none"

\* connect's deferred calls, run at every return after a successful dial:
\* cancel(), c.ws.Close(), c.reset().
EndSession ==
    /\ cancelled' = cancelled \cup {ws}
    /\ wsOpen' = wsOpen \ {ws}
    /\ deadlineSet' = FALSE
    /\ readLeft' = 0
    /\ pongPending' = FALSE
    /\ ws' = ws

\* websocket.DefaultDialer.Dial succeeds: c.ws is the new session, the
\* defers are registered and sendPings is started.
DialOk ==
    /\ supPc = "dialing"
    /\ ~GetAuthHeaders(addr).err
    /\ Dialable(addr)
    /\ \E s \in Sessions : pinger[s] = "none"
    /\ ws' = NextSession
    /\ wsOpen' = wsOpen \cup {NextSession}
    /\ pinger' = [pinger EXCEPT ![NextSession] = "init"]
    /\ deadlineSet' = FALSE
    /\ readLeft' = 0
    /\ pongPending' = FALSE
    /\ supPc' = "loop"
    /\ UNCHANGED <<handleVars, closeCalls, sinceClose, sentSubs, attempts,
                   sinceAttempt, sleepLeft, cancelled, pingLeft>>
    /\ UNCHANGED callVars
    /\ writeFailed' = FALSE
    /\ UNCHANGED <<lastFrame, cbActive, prevAttempts, unknownSeen>>
    /\ UNCHANGED restVars
    /\ UNCHANGED <<cfgVars, limVars>>

\* A connect that takes a failure to build the headers for final.
HeadersFailGivesUp ==
    /\ supPc = "dialing"
    /\ GetAuthHeaders(addr).err
    /\ supPc' = "done"
    /\ UNCHANGED <<handleVars, closeCalls, sinceClose, sentSubs, attempts,
                   sinceAttempt, sleepLeft>>
    /\ UNCHANGED <<sessVars, pingVars, callVars, obsVars, restVars>>
    /\ UNCHANGED <<cfgVars, limVars>>

\* api.GetAuthHeaders fails: connect returns the error before it dials, and
\* c.ws is what it was.
HeadersFail ==
    /\ supPc = "dialing"
    /\ GetAuthHeaders(addr).err
    /\ supPc' = "check"
    /\ UNCHANGED <<handleVars, closeCalls, sinceClose, sentSubs, attempts,
                   sinceAttempt, sleepLeft>>
    /\ UNCHANGED <<sessVars, pingVars, callVars, obsVars, restVars>>
    /\ UNCHANGED <<cfgVars, limVars>>

\* websocket.DefaultDialer.Dial fails: c.ws is assigned nil and connect
\* returns the error.
DialFail ==
    /\ supPc = "dialing"
    /\ ~GetAuthHeaders(addr).err
    /\ ws' = 0
    /\ supPc' = "check"
    /\ UNCHANGED <<handleVars, closeCalls, sinceClose, sentSubs, attempts,
                   sinceAttempt, sleepLeft, wsOpen, cancelled, deadlineSet,
                   readLeft, pongPending>>
    /\ UNCHANGED <<pingVars, callVars>>
    /\ UNCHANGED obsVars
    /\ UNCHANGED restVars
    /\ UNCHANGED <<cfgVars, limVars>>

\* Top of connect's read loop: return nil when closed, else ReadMessage.
LoopTop ==
    /\ supPc = "loop"
    /\ IF IsClosed
         THEN EndSession /\ supPc' = "check"
         ELSE supPc' = "reading" /\ UNCHANGED sessVars
    /\ UNCHANGED <<handleVars, closeCalls, sinceClose, sentSubs, attempts,
                   sinceAttempt, sleepLeft>>
    /\ UNCHANGED <<pingVars, callVars>>
    /\ lastFrame' = "none"
    /\ UNCHANGED <<cbActive, prevAttempts, writeFailed, unknownSeen>>
    /\ UNCHANGED restVars
    /\ UNCHANGED <<cfgVars, limVars>>

\* A dispatch that hands SUBSCRIBED acknowledgments to the callback.
receivedUpdateForwardsAcks(kind) ==
    CASE kind = "NEW_TRADE" -> "callback"
      [] kind = "NEW_TRADE_bad" -> "error"
      [] kind \in {"SUBSCRIBED", "SUBSCRIBED_bad"} -> "callback"
      [] OTHER -> "ignore"

\* A dispatch whose default case returns an error.
receivedUpdateUnknownFatal(kind) ==
    CASE kind = "NEW_TRADE" -> "callback"
      [] kind = "NEW_TRADE_bad" -> "error"
      [] kind \in {"AUTHENTICATED", "AUTHENTICATED_bad"} -> "ignore"
      [] kind \in {"SUBSCRIBED", "SUBSCRIBED_bad"} -> "ignore"
      [] OTHER -> "error"

\* A dispatch that drops the error of unmarshalling a trade update.
receivedUpdateSwallowsBadTrade(kind) ==
    CASE kind = "NEW_TRADE" -> "callback"
      [] OTHER -> "ignore"

\* receivedUpdate: what the dispatch on the message type does.  Only a
\* NEW_TRADE frame is unmarshalled into its payload shape.
receivedUpdate(kind) ==
    CASE kind = "NEW_TRADE" -> "callback"
      [] kind = "NEW_TRADE_bad" -> "error"
      [] kind \in {"AUTHENTICATED", "AUTHENTICATED_bad"} -> "ignore"
      [] kind \in {"SUBSCRIBED", "SUBSCRIBED_bad"} -> "ignore"
      [] OTHER -> "ignore"

\* A callback started with "go": connect goes on without waiting for it.
InvokePcDetached == "loop"

\* c.updateCallback(*message) is a plain call: connect is inside the
\* callback until it returns.
InvokePc == "callback"

\* The body of connect's loop after ReadMessage returned a frame.
HandleFrame(kind) ==
    CASE kind = "keepalive" -> "ignore"
      [] kind = "badjson" -> "error"
      [] OTHER -> receivedUpdate(kind)

\* ReadMessage returns a data frame and connect handles it.
RecvFrame(kind) ==
    /\ supPc = "reading"
    /\ ws \in wsOpen
    /\ HandleFrame(kind) = "callback" => updateCallback
    /\ lastFrame' = kind
    /\ CASE HandleFrame(kind) = "callback" ->
              /\ supPc' = InvokePc
              /\ cbActive' = cbActive + 1
              /\ UNCHANGED sessVars
         [] HandleFrame(kind) = "ignore" ->
              supPc' = "loop" /\ UNCHANGED <<sessVars, cbActive>>
         [] OTHER ->
              EndSession /\ supPc' = "check" /\ UNCHANGED cbActive
    /\ unknownSeen' = (unknownSeen \/ kind = "unknown")
    /\ UNCHANGED <<prevAttempts, writeFailed>>
    /\ UNCHANGED <<handleVars, closeCalls, sinceClose, sentSubs, attempts,
                   sinceAttempt, sleepLeft>>
    /\ UNCHANGED <<pingVars, callVars>>
    /\ UNCHANGED restVars
    /\ UNCHANGED <<cfgVars, limVars>>

\* ReadMessage returns a trade update and Conn.updateCallback is nil: the
\* call of the nil function panics in the supervisor goroutine, which
\* ends the process.
InvokeNilCallback ==
    /\ supPc = "reading"
    /\ ws \in wsOpen
    /\ ~updateCallback
    /\ lastFrame' = "NEW_TRADE"
    /\ supPc' = "panicked"
    /\ UNCHANGED <<cbActive, prevAttempts, writeFailed, unknownSeen>>
    /\ UNCHANGED <<handleVars, closeCalls, sinceClose, sentSubs, attempts,
                   sinceAttempt, sleepLeft>>
    /\ UNCHANGED <<sessVars, pingVars, callVars, restVars>>
    /\ UNCHANGED <<cfgVars, limVars>>

\* ReadMessage handles a pong: the pong handler extends the read deadline
\* and the read goes on.
RecvPong ==
    /\ supPc = "reading"
    /\ pongPending
    /\ pongPending' = FALSE
    /\ deadlineSet' = TRUE
    /\ readLeft' = readTimeout
    /\ UNCHANGED <<handleVars, closeCalls, sinceClose, sentSubs, ws, wsOpen,
                   cancelled>>
    /\ UNCHANGED <<supVars, pingVars, callVars>>
    /\ UNCHANGED obsVars
    /\ UNCHANGED restVars
    /\ UNCHANGED <<cfgVars, limVars>>

\* ReadMessage returns an error: the transport failed or the server closed.
ReadErr ==
    /\ supPc = "reading"
    /\ EndSession
    /\ supPc' = "check"
    /\ UNCHANGED <<handleVars, closeCalls, sinceClose, sentSubs, attempts,
                   sinceAttempt, sleepLeft>>
    /\ UNCHANGED <<pingVars, callVars>>
    /\ UNCHANGED obsVars
    /\ UNCHANGED restVars
    /\ UNCHANGED <<cfgVars, limVars>>

\* A connect that logs the timeout and goes round its loop again.
ReadTimeoutKeepsSession ==
    /\ supPc = "reading"
    /\ deadlineSet /\ readLeft = 0
    /\ supPc' = "loop"
    /\ lastFrame' = "timeout"
    /\ UNCHANGED <<handleVars, closeCalls, sinceClose, sentSubs, attempts,
                   sinceAttempt, sleepLeft>>
    /\ UNCHANGED <<sessVars, pingVars, callVars>>
    /\ UNCHANGED <<cbActive, prevAttempts, writeFailed, unknownSeen>>
    /\ UNCHANGED restVars
    /\ UNCHANGED <<cfgVars, limVars>>

\* ReadMessage returns a timeout: the read deadline has passed.
ReadTimeout ==
    /\ supPc = "reading"
    /\ deadlineSet /\ readLeft = 0
    /\ EndSession
    /\ supPc' = "check"
    /\ UNCHANGED <<handleVars, closeCalls, sinceClose, sentSubs, attempts,
                   sinceAttempt, sleepLeft>>
    /\ UNCHANGED <<pingVars, callVars>>
    /\ lastFrame' = "timeout"
    /\ UNCHANGED <<cbActive, prevAttempts, writeFailed, unknownSeen>>
    /\ UNCHANGED restVars
    /\ UNCHANGED <<cfgVars, limVars>>

\* The update callback returns.
CallbackReturn ==
    /\ supPc = "callback"
    /\ cbActive > 0
    /\ supPc' = "loop"
    /\ UNCHANGED <<handleVars, closeCalls, sinceClose, sentSubs, attempts,
                   sinceAttempt, sleepLeft>>
    /\ UNCHANGED <<sessVars, pingVars, callVars>>
    /\ cbActive' = cbActive - 1
    /\ UNCHANGED <<lastFrame, prevAttempts, writeFailed, unknownSeen>>
    /\ UNCHANGED restVars
    /\ UNCHANGED <<cfgVars, limVars>>

\* A manageForever that returns whenever connect has returned.
AfterConnectGivesUp ==
    /\ supPc = "check"
    /\ supPc' = "done"
    /\ lastFrame' = "none"
    /\ unknownSeen' = FALSE
    /\ UNCHANGED <<attempts, sinceAttempt, sleepLeft, prevAttempts, cbActive,
                   writeFailed, handleVars, closeCalls, sinceClose, sentSubs>>
    /\ UNCHANGED <<sessVars, pingVars, callVars>>
    /\ UNCHANGED restVars
    /\ UNCHANGED <<cfgVars, limVars>>

\* manageForever after connect returned: stop when closed, else compute the
\* backoff and sleep.
AfterConnect ==
    /\ supPc = "check"
    /\ IF IsClosed
         THEN /\ supPc' = "done"
              /\ UNCHANGED <<attempts, sinceAttempt, sleepLeft, prevAttempts>>
         ELSE /\ NextAttempts <= MaxAttempts
              /\ prevAttempts' = attempts
              /\ attempts' = NextAttempts
              /\ sinceAttempt' = 0
              /\ sleepLeft' = backoffHandler(NextAttempts)
              /\ supPc' = "sleeping"
    /\ lastFrame' = "none"
    /\ unknownSeen' = FALSE
    /\ UNCHANGED <<cbActive, writeFailed>>
    /\ UNCHANGED <<handleVars, closeCalls, sinceClose, sentSubs>>
    /\ UNCHANGED <<sessVars, pingVars, callVars>>
    /\ UNCHANGED restVars
    /\ UNCHANGED <<cfgVars, limVars>>

\* time.Sleep(dt) returns and the loop calls connect again.
Wake ==
    /\ supPc = "sleeping"
    /\ sleepLeft = 0
    /\ supPc' = "dialing"
    /\ UNCHANGED <<handleVars, closeCalls, sinceClose, sentSubs, attempts,
                   sinceAttempt, sleepLeft>>
    /\ UNCHANGED <<sessVars, pingVars, callVars>>
    /\ UNCHANGED obsVars
    /\ UNCHANGED restVars
    /\ UNCHANGED <<cfgVars, limVars>>

\* ----------------------------------------------------------- sendPings

\* sendPings starts: the ticker, the initial read deadline on c.ws and the
\* pong handler.
PingerInit(s) ==
    /\ Running
    /\ pinger[s] = "init"
    /\ pinger' = [pinger EXCEPT ![s] = "select"]
    /\ pingLeft' = [pingLeft EXCEPT ![s] = pingInterval]
    /\ IF ws \in wsOpen
         THEN deadlineSet' = TRUE /\ readLeft' = readTimeout
         ELSE UNCHANGED <<deadlineSet, readLeft>>
    /\ UNCHANGED <<handleVars, closeCalls, sinceClose, sentSubs, ws, wsOpen,
                   cancelled, pongPending>>
    /\ UNCHANGED <<supVars, callVars>>
    /\ UNCHANGED obsVars
    /\ UNCHANGED restVars
    /\ UNCHANGED <<cfgVars, limVars>>

\* select, case <-ctx.Done(): return.
PingerDone(s) ==
    /\ Running
    /\ pinger[s] = "select"
    /\ s \in cancelled
    /\ pinger' = [pinger EXCEPT ![s] = "gone"]
    /\ pingLeft' = [pingLeft EXCEPT ![s] = 0]
    /\ UNCHANGED <<handleVars, closeCalls, sinceClose, sentSubs>>
    /\ UNCHANGED <<supVars, sessVars, callVars>>
    /\ UNCHANGED obsVars
    /\ UNCHANGED restVars
    /\ UNCHANGED <<cfgVars, limVars>>

\* select, case <-pingTicker.C: return when closed or c.ws is nil, else
\* write a ping to c.ws; a write error is logged and nothing else.
PingerTick(s) ==
    /\ Running
    /\ pinger[s] = "select"
    /\ pingLeft[s] = 0
    /\ IF IsClosed \/ ws = 0
         THEN /\ pinger' = [pinger EXCEPT ![s] = "gone"]
              /\ UNCHANGED <<pingLeft, pongPending, writeFailed>>
         ELSE /\ pingLeft' = [pingLeft EXCEPT ![s] = pingInterval]
              /\ \E ok \in BOOLEAN :
                    /\ ok => ws \in wsOpen
                    /\ pongPending' = (pongPending \/ ok)
                    /\ writeFailed' = (writeFailed \/ ~ok)
              /\ UNCHANGED pinger
    /\ UNCHANGED <<handleVars, closeCalls, sinceClose, sentSubs, ws, wsOpen,
                   cancelled, deadlineSet, readLeft>>
    /\ UNCHANGED <<supVars, callVars, lastFrame, cbActive, prevAttempts,
                   unknownSeen>>
    /\ UNCHANGED restVars
    /\ UNCHANGED <<cfgVars, limVars>>

\* select, case pairs := <-c.SubscribeCh: the caller's send completes and
\* the SUBSCRIBE frame is written to c.ws; a write error is logged and the
\* request is dropped.
PingerSubscribe(s) ==
    /\ Running
    /\ pinger[s] = "select"
    /\ callerPc = "sending"
    /\ callerPc' = "idle"
    /\ pending' = <<>>
    /\ pendingOffline' = FALSE
    /\ \E ok \in BOOLEAN :
          /\ ok => ws \in wsOpen
          /\ sentSubs' = IF ok
               THEN [sentSubs EXCEPT
                       ![ws] = Append(@, SubscribeFrame(pending))]
               ELSE sentSubs
          /\ writeFailed' = (writeFailed \/ ~ok)
    /\ UNCHANGED <<lastFrame, cbActive, prevAttempts, unknownSeen>>
    /\ UNCHANGED <<handleVars, closeCalls, sinceClose, subCalls>>
    /\ UNCHANGED <<supVars, sessVars, pingVars>>
    /\ UNCHANGED restVars
    /\ UNCHANGED <<cfgVars, limVars>>

\* ---------------------------------------------------------------- time

\* Some goroutine can run now: time does not pass before it has.
Runnable ==
    \/ supPc \in {"loop", "callback", "check"}
    \/ supPc = "sleeping" /\ sleepLeft = 0
    \/ supPc = "reading" /\ deadlineSet /\ readLeft = 0
    \/ \E s \in Sessions :
          \/ pinger[s] = "init"
          \/ pinger[s] = "select" /\
               (s \in cancelled \/ pingLeft[s] = 0 \/ callerPc = "sending")

\* One unit of time passes.
Tick ==
    /\ Running
    /\ dialed = "ok"
    /\ ~Runnable
    /\ sinceAttempt' = Min(sinceAttempt + 1, AttemptResetOpt)
    /\ sinceClose' = IF closed THEN Min(sinceClose + 1, readTimeout) ELSE 0
    /\ readLeft' = IF deadlineSet THEN readLeft - 1 ELSE readLeft
    /\ sleepLeft' = IF supPc = "sleeping" THEN sleepLeft - 1 ELSE sleepLeft
    /\ pingLeft' = [s \in Sessions |->
                      IF pinger[s] = "select" THEN pingLeft[s] - 1
                                              ELSE pingLeft[s]]
    /\ UNCHANGED <<handleVars, closeCalls, sentSubs, supPc, attempts, ws,
                   wsOpen, cancelled, deadlineSet, pongPending, pinger>>
    /\ UNCHANGED callVars
    /\ UNCHANGED obsVars
    /\ UNCHANGED restVars
    /\ UNCHANGED <<cfgVars, limVars>>

\* ---------------------------------------------------------- REST client

\* A do that unmarshals the body whatever the status.
doDecodesAny(status) == TRUE

\* do reaches json.Unmarshal(resBody, res) for a 2xx status only.
doDecodes(status) == status # 429 /\ status \div 100 = 2

\* What do returns for a response that was read.
doResult(status, body) ==
    CASE status = 429 -> "ErrTooManyRequests"
      [] status \div 100 # 2 -> "status"
      [] body = "json" -> "nil"
      [] OTHER -> "decode"

\* main's signal goroutine cancels the context.
Signal ==
    /\ ~ctxDone
    /\ restPc \notin {"exited", "stopped"}
    /\ ctxDone' = TRUE
    /\ UNCHANGED <<restPc, restMethod, restAuth, restHeaders, restStatus,
                   restBody, restSent, restDecoded, restErr, restCalls>>
    /\ UNCHANGED streamVars
    /\ UNCHANGED <<cfgVars, limVars>>

\* pollMarketsForever's select, case <-ctx.Done(): return.
PollCtxDone ==
    /\ restPc = "select"
    /\ ctxDone
    /\ restPc' = "stopped"
    /\ UNCHANGED <<restMethod, restAuth, restHeaders, restStatus, restBody,
                   restSent, restDecoded, restErr, restCalls, ctxDone>>
    /\ UNCHANGED streamVars
    /\ UNCHANGED <<cfgVars, limVars>>

\* The select's default case: a method of the client calls do.
doCall(method, auth) ==
    /\ restPc = "select"
    /\ ~ctxDone
    /\ restCalls < MaxCalls
    /\ restPc' = "build"
    /\ restMethod' = method
    /\ restAuth' = auth
    /\ restHeaders' = {}
    /\ restStatus' = 0
    /\ restBody' = ""
    /\ restSent' = 0
    /\ restDecoded' = FALSE
    /\ restErr' = "none"
    /\ restCalls' = restCalls + 1
    /\ UNCHANGED ctxDone
    /\ UNCHANGED streamVars
    /\ UNCHANGED <<cfgVars, limVars>>

\* do fails to build the request (MakeURLValues, json.Marshal or
\* http.NewRequest) and returns the error.
doBuildFail ==
    /\ restPc = "build"
    /\ restPc' = "returned"
    /\ restErr' = "build"
    /\ UNCHANGED <<restMethod, restAuth, restHeaders, restStatus, restBody,
                   restSent, restDecoded, restCalls, ctxDone>>
    /\ UNCHANGED streamVars
    /\ UNCHANGED <<cfgVars, limVars>>

\* do builds httpReq; a request that is not a GET carries a JSON body.
doBuild ==
    /\ restPc = "build"
    /\ restPc' = "wait"
    /\ restHeaders' = IF restMethod # "GET" THEN {"Content-Type"} ELSE {}
    /\ UNCHANGED <<restMethod, restAuth, restStatus, restBody, restSent,
                   restDecoded, restErr, restCalls, ctxDone>>
    /\ UNCHANGED streamVars
    /\ UNCHANGED <<cfgVars, limVars>>

\* cl.rateLimiter.Wait(ctx) returns and do signs the request if asked to.
doWait ==
    /\ restPc = "wait"
    /\ restPc' = "send"
    /\ restHeaders' = restHeaders \cup (IF restAuth THEN AuthHeaders ELSE {})
    /\ UNCHANGED <<restMethod, restAuth, restStatus, restBody, restSent,
                   restDecoded, restErr, restCalls, ctxDone>>
    /\ UNCHANGED streamVars
    /\ UNCHANGED <<cfgVars, limVars>>

\* cl.httpClient.Do or the read of the body fails: do returns the error.
doSendFail ==
    /\ restPc = "send"
    /\ restSent' = restSent + 1
    /\ restPc' = "returned"
    /\ restErr' = "transport"
    /\ UNCHANGED <<restMethod, restAuth, restHeaders, restStatus, restBody,
                   restDecoded, restCalls, ctxDone>>
    /\ UNCHANGED streamVars
    /\ UNCHANGED <<cfgVars, limVars>>

\* cl.httpClient.Do returns a response and its body is read.
doSend(status, body) ==
    /\ restPc = "send"
    /\ ~ctxDone
    /\ restSent' = restSent + 1
    /\ restStatus' = status
    /\ restBody' = body
    /\ restPc' = "response"
    /\ UNCHANGED <<restMethod, restAuth, restHeaders, restDecoded, restErr,
                   restCalls, ctxDone>>
    /\ UNCHANGED streamVars
    /\ UNCHANGED <<cfgVars, limVars>>

\* do looks at the status: 429, then any other status that is not 2xx,
\* then the body is unmarshalled into res.
doReturn ==
    /\ restPc = "response"
    /\ restDecoded' = doDecodes(restStatus)
    /\ restErr' = doResult(restStatus, restBody)
    /\ restPc' = "returned"
    /\ UNCHANGED <<restMethod, restAuth, restHeaders, restStatus, restBody,
                   restSent, restCalls, ctxDone>>
    /\ UNCHANGED streamVars
    /\ UNCHANGED <<cfgVars, limVars>>

\* pollMarketsForever: log.Fatal on ErrTooManyRequests.
PollFatal ==
    /\ restPc = "returned"
    /\ restErr = "ErrTooManyRequests"
    /\ restPc' = "exited"
    /\ UNCHANGED <<restMethod, restAuth, restHeaders, restStatus, restBody,
                   restSent, restDecoded, restErr, restCalls, ctxDone>>
    /\ UNCHANGED streamVars
    /\ UNCHANGED <<cfgVars, limVars>>

\* pollMarketsForever: any other error is printed and the loop returns.
PollStop ==
    /\ restPc = "returned"
    /\ restErr \notin {"nil", "ErrTooManyRequests"}
    /\ restPc' = "stopped"
    /\ UNCHANGED <<restMethod, restAuth, restHeaders, restStatus, restBody,
                   restSent, restDecoded, restErr, restCalls, ctxDone>>
    /\ UNCHANGED streamVars
    /\ UNCHANGED <<cfgVars, limVars>>

\* pollMarketsForever: a short page ends the loop, a full page moves
\* req.Skip on and the loop goes round.
PollPage ==
    /\ restPc = "returned"
    /\ restErr = "nil"
    /\ \E full \in BOOLEAN : restPc' = IF full THEN "select" ELSE "stopped"
    /\ UNCHANGED <<restMethod, restAuth, restHeaders, restStatus, restBody,
                   restSent, restDecoded, restErr, restCalls, ctxDone>>
    /\ UNCHANGED streamVars
    /\ UNCHANGED <<cfgVars, limVars>>

\* ----------------------------------------------------------- rate limiter

\* RateLimiter.Wait called by goroutine c: under the lock, a count below
\* maxPerInterval is incremented and Wait returns; otherwise the caller
\* waits on the condition variable.
Wait(c) ==
    /\ waitPc[c] = "idle"
    /\ waitCalls < MaxWaits
    /\ waitCalls' = waitCalls + 1
    /\ IF requestCount < MaxPerIntervalOpt
         THEN /\ requestCount' = requestCount + 1
              /\ admitted' = admitted + 1
              /\ UNCHANGED waitPc
         ELSE /\ waitPc' = [waitPc EXCEPT ![c] = "blocked"]
              /\ UNCHANGED <<requestCount, admitted>>
    /\ UNCHANGED resets
    /\ UNCHANGED <<streamVars, restVars, cfgVars>>

\* cond.Wait returns in goroutine c after the broadcast, with the lock
\* held again, and Wait returns nil.
WaitWoken(c) ==
    /\ waitPc[c] = "woken"
    /\ waitPc' = [waitPc EXCEPT ![c] = "idle"]
    /\ admitted' = admitted + 1
    /\ UNCHANGED <<requestCount, resets, waitCalls>>
    /\ UNCHANGED <<streamVars, restVars, cfgVars>>

\* resetCount, after its sleep to the end of the interval: under the lock
\* the count is zeroed and every waiter is woken.
resetCount ==
    /\ resets < MaxResets
    /\ resets' = resets + 1
    /\ requestCount' = 0
    /\ waitPc' = [c \in Callers |->
                    IF waitPc[c] = "blocked" THEN "woken" ELSE waitPc[c]]
    /\ admitted' = 0
    /\ UNCHANGED waitCalls
    /\ UNCHANGED <<streamVars, restVars, cfgVars>>

\* -------------------------------------------------------- specification

Next ==
    \/ \E k \in Creds, s \in Creds : Dial(k, s)
    \/ Close
    \/ \E pairs \in PairLists : SubscribeCall(pairs)
    \/ DialOk
    \/ DialFail
    \/ LoopTop
    \/ \E kind \in FrameKinds : RecvFrame(kind)
    \/ RecvPong
    \/ ReadErr
    \/ ReadTimeout
    \/ CallbackReturn
    \/ AfterConnect
    \/ Wake
    \/ \E s \in Sessions : PingerInit(s)
    \/ \E s \in Sessions : PingerDone(s)
    \/ \E s \in Sessions : PingerTick(s)
    \/ \E s \in Sessions : PingerSubscribe(s)
    \/ Tick

Spec == Init /\ [][Next]_vars

\* The goroutines' own steps are taken when they can be (the Go scheduler
\* runs a runnable goroutine, a select takes a ready case, the callback
\* returns) and time goes on; nothing is assumed of the network or of the
\* caller.
Fairness ==
    /\ WF_vars(LoopTop)
    /\ WF_vars(CallbackReturn)
    /\ WF_vars(AfterConnect)
    /\ WF_vars(Wake)
    /\ WF_vars(ReadTimeout)
    /\ \A s \in Sessions : WF_vars(PingerInit(s))
    /\ \A s \in Sessions : WF_vars(PingerDone(s))
    /\ \A s \in Sessions : WF_vars(PingerTick(s))
    /\ \A s \in Sessions : WF_vars(PingerSubscribe(s))
    /\ WF_vars(Tick)

FairSpec == Spec /\ Fairness

\* The streaming client given any address: connect's call of
\* GetAuthHeaders can fail.
UrlInit ==
    /\ InitCore
    /\ addr \in Urls
    /\ updateCallback = TRUE

UrlNext ==
    \/ Next
    \/ HeadersFail

UrlSpec == UrlInit /\ [][UrlNext]_vars

\* The streaming client dialed with or without the update callback
\* option.
NilCallbackInit ==
    /\ InitCore
    /\ addr = tradeWebSocketAddr
    /\ updateCallback \in BOOLEAN

NilCallbackNext ==
    \/ Next
    \/ InvokeNilCallback

NilCallbackSpec == NilCallbackInit /\ [][NilCallbackNext]_vars

\* The rate limiter, its reset goroutine and the goroutines that call Wait.
LimiterNext ==
    \/ \E c \in Callers : Wait(c)
    \/ \E c \in Callers : WaitWoken(c)
    \/ resetCount

LimiterSpec == Init /\ [][LimiterNext]_vars

\* The REST client and its polling caller.
RestNext ==
    \/ Signal
    \/ PollCtxDone
    \/ \E method \in Methods, auth \in BOOLEAN : doCall(method, auth)
    \/ doBuildFail
    \/ doBuild
    \/ doWait
    \/ doSendFail
    \/ \E status \in StatusCodes, body \in Bodies : doSend(status, body)
    \/ doReturn
    \/ PollFatal
    \/ PollStop
    \/ PollPage

RestSpec == Init /\ [][RestNext]_vars

\* --------------------------------------------------------------- claims

\* The SUBSCRIBE frames written to sessions before the one c.ws names.
HeldAtReconnect ==
    {f \in UNION {{sentSubs[t][i] : i \in 1..Len(sentSubs[t])} :
                    t \in Sessions} :
        \E t \in Sessions : /\ t < ws
                            /\ \E i \in 1..Len(sentSubs[t]) : sentSubs[t][i] = f}

\* How often frame f was written to session s.
TimesSent(f, s) == Cardinality({i \in 1..Len(sentSubs[s]) : sentSubs[s][i] = f})

\* C1: once a new session is being served and both its reader and its
\* writer task wait for input, every subscription sent on an earlier
\* session has been sent again on this one.
ResubscribedOnEverySession ==
    (supPc = "reading" /\ ws \in Sessions /\ pinger[ws] = "select"
       /\ callerPc = "idle")
      => \A f \in HeldAtReconnect : TimesSent(f, ws) >= 1

\* C2: when an update of a session reaches the callback, every
\* subscription held at reconnect time has been replayed on that session
\* exactly once.
ReplayedOnceBeforeFirstUpdate ==
    (supPc = "callback" /\ ws \in Sessions)
      => \A f \in HeldAtReconnect : TimesSent(f, ws) = 1

\* C3: once the closed flag is true the supervisor starts no connect
\* attempt; a backoff wait that ends with the flag set is followed by the
\* terminal state, not by a dial.
NoConnectAfterClosed ==
    [][(closed /\ supPc # "dialing") => supPc' # "dialing"]_vars

\* C4: the update callback is not invoked once the closed flag is set.
NoCallbackAfterClosed ==
    [][(supPc # "callback" /\ supPc' = "callback") => ~closed]_vars

\* C5: a SubscribeToMarkets call in progress can always complete at once:
\* it never has to wait for a writer task to be there to take the request.
SubscribeNeverBlocks ==
    callerPc = "sending" => \E s \in Sessions : pinger[s] = "select"

\* C6: a request made on an open handle while no session was live is,
\* when it is taken from the channel, written to an open session.
OfflineSubscribeNotLost ==
    [][(~closed /\ callerPc = "sending" /\ pendingOffline
          /\ callerPc' = "idle")
         => /\ ws \in wsOpen
            /\ sentSubs' = [sentSubs EXCEPT
                 ![ws] = Append(@, SubscribeFrame(pending))]]_vars

\* The backoff wait in progress, if any, else no bound from it.
CloseLatencyBound ==
    IF supPc = "sleeping"
      THEN Min(pingInterval, backoffHandler(attempts))
      ELSE pingInterval

\* C7: after a Close made while the supervisor is blocked reading or in a
\* backoff wait, it leaves that wait within the shorter of the keepalive
\* interval and the current backoff wait.  (Both waits are entered only
\* with the flag clear, so the flag set in one of them means Close was
\* called during it.)
ClosedObservedWithinPoll ==
    (closed /\ supPc \in {"reading", "sleeping"})
      => sinceClose <= CloseLatencyBound

\* C8: a Close call made while a session is live closes that session's
\* transport.
CloseTearsDownSession ==
    [][(~closed /\ closed' /\ ws \in wsOpen) => ws \notin wsOpen']_vars

\* C9: the closed flag only goes from false to true, a Close call after
\* the first changes nothing of the handle, and IsClosed is true once a
\* Close call has returned.
CloseIdempotentMonotonic ==
    /\ [][/\ closed => closed'
          /\ (closeCalls >= 1 /\ closeCalls' # closeCalls) =>
                UNCHANGED <<handleVars, supVars, sessVars, pingVars,
                            callVars, obsVars, sinceClose, sentSubs>>]_vars
    /\ [](closeCalls >= 1 => IsClosed)

SecondCloseDone == closeCalls >= 2 /\ closed

\* C10: Dial returns an error and starts nothing when the key id or the
\* secret is empty; otherwise it starts the supervisor and returns before
\* anything has been dialed.
DialValidatesCredentials ==
    /\ [](/\ dialed = "none" => supPc = "idle"
          /\ dialed = "err" => /\ keyID = "" \/ keySecret = ""
                               /\ supPc = "idle"
                               /\ ws = 0 /\ ~closed
          /\ dialed = "ok" => /\ keyID # "" /\ keySecret # ""
                              /\ supPc # "idle")
    /\ [][(dialed # "ok" /\ dialed' = "ok")
            => /\ supPc' = "dialing"
               /\ ws' = 0 /\ wsOpen' = {}
               /\ \A s \in Sessions : pinger'[s] = "none"]_vars

DialRejected == dialed = "err" /\ keyID # "" /\ keySecret = "" /\ supPc = "idle"

\* C11: while the handle is not closed, connect returning (a failed
\* handshake or a session that ended) leads to a new connect attempt, as
\* long as the attempt count is within the explored bound, and the
\* supervisor terminates only when the handle is closed.
ReconnectsUnlessClosed ==
    /\ [](supPc = "done" => closed)
    /\ (supPc = "check" /\ ~closed /\ NextAttempts <= MaxAttempts)
          ~> (supPc = "dialing" \/ closed)

ReconnectAttempted == supPc = "dialing" /\ attempts >= 1 /\ ~closed

\* C12: the update callback is invoked once for every trade update that
\* decodes, by connect itself, which reads no further frame until the
\* callback has returned; two invocations are never in progress together.
CallbackSequential ==
    /\ [](cbActive = IF supPc = "callback" THEN 1 ELSE 0)
    /\ [][(supPc = "reading" /\ lastFrame' = "NEW_TRADE")
            => cbActive' = cbActive + 1]_vars
    /\ [][cbActive' > cbActive
            => /\ supPc = "reading" /\ lastFrame' = "NEW_TRADE"
               /\ cbActive' = cbActive + 1]_vars
    /\ [][(supPc = "callback" /\ supPc' # "callback")
            => (supPc' = "loop" /\ cbActive' = 0)]_vars

CallbackInProgress ==
    supPc = "callback" /\ cbActive = 1 /\ lastFrame = "NEW_TRADE"

\* C13: a frame read by connect reaches the callback if and only if it is
\* a NEW_TRADE frame whose payload decodes; AUTHENTICATED and SUBSCRIBED
\* frames are dropped, the session goes on and the callback is not called.
OnlyTradesReachCallback ==
    /\ [][(supPc = "reading" /\ lastFrame' # "none")
            => (supPc' = "callback" <=> lastFrame' = "NEW_TRADE")]_vars
    /\ [][(supPc # "callback" /\ supPc' = "callback")
            => (supPc = "reading" /\ lastFrame' = "NEW_TRADE")]_vars
    /\ [][(supPc = "reading"
             /\ lastFrame' \in {"AUTHENTICATED", "SUBSCRIBED"})
            => /\ supPc' = "loop"
               /\ cbActive' = cbActive
               /\ ws \in wsOpen']_vars

AckConsumed ==
    /\ supPc = "loop"
    /\ lastFrame \in {"AUTHENTICATED", "SUBSCRIBED"}
    /\ cbActive = 0
    /\ ws \in wsOpen

\* C14: a frame of unknown type leaves the session as it is, connect goes
\* back to reading on the same session, and a trade update read later on
\* that session reaches the callback.
UnknownKindKeepsSession ==
    /\ [][(supPc = "reading" /\ lastFrame' = "unknown")
            => (supPc' = "loop" /\ UNCHANGED sessVars /\ ws \in wsOpen)]_vars
    /\ [](lastFrame = "unknown"
            => (Serving /\ ws \in wsOpen /\ ws \notin cancelled))
    /\ [][(unknownSeen /\ supPc = "reading" /\ lastFrame' = "NEW_TRADE")
            => (supPc' = "callback" /\ UNCHANGED sessVars)]_vars

TradeAfterUnknown == unknownSeen /\ supPc = "callback" /\ ws \in wsOpen

EpisodeResetOnSuccess ==
    [][(supPc = "check" /\ ws # 0 /\ supPc' = "sleeping")
         => (attempts' = 1 /\ sleepLeft' = backoffHandler(1))]_vars

\* C17: establishing a session changes nothing of the failure episode; the
\* backoff computed after an established session uses count 1 if the
\* previous backoff computation is at least attemptReset ago, and the
\* previous count plus one otherwise.
EpisodeResetOnlyByQuietPeriod ==
    /\ [][(supPc = "dialing" /\ supPc' = "loop")
            => (attempts' = attempts /\ sinceAttempt' = sinceAttempt)]_vars
    /\ [][(supPc = "check" /\ ws # 0 /\ supPc' = "sleeping")
            => /\ attempts' = IF sinceAttempt >= AttemptResetOpt
                                THEN 1 ELSE attempts + 1
               /\ sleepLeft' = backoffHandler(attempts')]_vars

EpisodeContinuedAfterSuccess ==
    supPc = "sleeping" /\ ws # 0 /\ attempts = 2 /\ prevAttempts = 1

\* C18: when calculateBackoff is called at least attemptReset after the
\* previous call, or for the first time, the wait is the policy's wait for
\* attempt count 1, whatever the count was.
QuietPeriodResetsEpisode ==
    /\ [][(supPc = "check" /\ supPc' = "sleeping"
             /\ sinceAttempt >= AttemptResetOpt)
            => (attempts' = 1 /\ sleepLeft' = backoffHandler(1))]_vars
    /\ [](attempts = 0 => sinceAttempt >= AttemptResetOpt)

EpisodeResetAfterQuiet ==
    /\ supPc = "sleeping"
    /\ attempts = 1 /\ prevAttempts >= 1
    /\ sleepLeft = backoffHandler(1)

\* C19: while the gaps stay below attemptReset every cycle adds one to the
\* attempt count, the wait is the policy applied to the new count, which
\* is at least 1, and between two dials there is exactly one wait.
BackoffFollowsAttemptCount ==
    /\ [][(supPc = "check" /\ supPc' = "sleeping"
             /\ sinceAttempt < AttemptResetOpt)
            => attempts' = attempts + 1]_vars
    /\ [][(supPc = "check" /\ supPc' = "sleeping")
            => (attempts' >= 1 /\ sleepLeft' = backoffHandler(attempts'))]_vars
    /\ [][(supPc # "dialing" /\ supPc' = "dialing")
            => (supPc = "idle" \/ (supPc = "sleeping" /\ sleepLeft = 0))]_vars
    /\ [][(supPc = "dialing" /\ supPc' # "dialing")
            => supPc' \in {"loop", "check"}]_vars
    /\ [][(supPc = "sleeping" /\ supPc' = "sleeping")
            => attempts' = attempts]_vars

SecondConsecutiveWait ==
    /\ supPc = "sleeping"
    /\ attempts = 2 /\ prevAttempts = 1
    /\ sleepLeft = backoffHandler(2)
    /\ sinceAttempt = 0

\* C20: while a session is served, a frame that does not decode ends it,
\* and after a write to it has failed connect handles no further frame of
\* it.
SessionErrorsEndSession ==
    /\ [][(supPc = "reading" /\ lastFrame' \in {"badjson", "NEW_TRADE_bad"})
            => supPc' = "check"]_vars
    /\ [][(writeFailed /\ supPc = "reading" /\ ws \in wsOpen)
            => supPc' \notin {"loop", "callback"}]_vars

\* C21: a data frame read by connect, after which the session goes on,
\* extends the read deadline of the session to a full read timeout from
\* then.
InboundDataExtendsDeadline ==
    [][(supPc = "reading" /\ deadlineSet /\ lastFrame' \in FrameKinds
          /\ supPc' \in {"loop", "callback"})
         => (deadlineSet' /\ readLeft' = readTimeout)]_vars

\* C22: when the read deadline has passed while connect is blocked in
\* ReadMessage, the timeout is ready to be returned and no time passes
\* before connect has acted; the timeout ends the session and, on an open
\* handle, is followed by a backoff wait; a transport is closed by connect
\* returning and by nothing else.
ReadPathObservesTimeout ==
    /\ []((supPc = "reading" /\ deadlineSet /\ readLeft = 0)
            => (ENABLED ReadTimeout /\ ~ENABLED Tick))
    /\ [][lastFrame' = "timeout" /\ lastFrame # "timeout"
            => /\ supPc = "reading" /\ supPc' = "check"
               /\ readLeft = 0
               /\ ws \notin wsOpen' /\ ws \in cancelled']_vars
    /\ [][(supPc = "check" /\ lastFrame = "timeout" /\ supPc' # "check")
            => supPc' = IF closed THEN "done" ELSE "sleeping"]_vars
    /\ [][wsOpen' # wsOpen
            => \/ supPc = "dialing" /\ supPc' = "loop"
               \/ Serving /\ supPc' = "check"]_vars

TimedOutSession ==
    /\ supPc = "check"
    /\ lastFrame = "timeout"
    /\ ~closed
    /\ ws \notin wsOpen

\* A step of a sendPings goroutine: it starts, takes a tick of its ticker,
\* takes a request from SubscribeCh, or returns.
SendPingsStep ==
    \/ \E s \in Sessions :
          /\ pinger[s] # "none"
          /\ pinger'[s] # pinger[s] \/ pingLeft'[s] > pingLeft[s]
    \/ callerPc = "sending" /\ callerPc' = "idle"

\* C23: no sendPings goroutine performs I/O on the transport Conn.ws
\* names: none of its steps sets the read deadline or writes a frame.
SessionOwnedBySupervisor ==
    [][SendPingsStep
         => UNCHANGED <<deadlineSet, readLeft, pongPending, sentSubs,
                        writeFailed>>]_vars

\* C25: on an open handle a request is taken from SubscribeCh only while
\* the session Conn.ws names is live: its transport open and its context
\* not cancelled.
SubscribeTakenByLiveSession ==
    [][(~closed /\ callerPc = "sending" /\ callerPc' = "idle")
         => (ws \in wsOpen /\ ws \notin cancelled)]_vars

\* C24: when GetAuthHeaders fails for the address, connect returns before
\* any transport is opened, and what follows is what follows a failed
\* dial: on an open handle calculateBackoff counts the attempt, the
\* supervisor waits the policy's time for that count and tries again.
HeaderFailureLikeDialFailure ==
    /\ [](GetAuthHeaders(addr).err
            => (ws = 0 /\ wsOpen = {} /\ \A s \in Sessions : pinger[s] = "none"))
    /\ [](GetAuthHeaders(addr).err
            <=> addr.scheme \notin {"wss", "https"})
    /\ [][(supPc = "dialing" /\ supPc' # "dialing" /\ GetAuthHeaders(addr).err)
            => (supPc' = "check" /\ UNCHANGED sessVars)]_vars
    /\ [][(supPc = "check" /\ supPc' # "check")
            => IF closed
                 THEN supPc' = "done"
                 ELSE /\ supPc' = "sleeping"
                      /\ attempts' = NextAttempts
                      /\ sleepLeft' = backoffHandler(attempts')]_vars
    /\ [][(supPc = "sleeping" /\ supPc' # "sleeping")
            => supPc' = "dialing"]_vars

RetriedAfterHeaderFailure ==
    /\ GetAuthHeaders(addr).err
    /\ supPc = "dialing"
    /\ attempts = 2
    /\ ~closed

\* C27: on a handle dialed without an update callback a trade update that
\* decodes is handled and the supervisor goes on: back to its read loop or,
\* the session ended, on to the backoff.
NilCallbackSurvivesTrade ==
    [][(~updateCallback /\ supPc = "reading" /\ lastFrame' = "NEW_TRADE")
         => supPc' \in {"loop", "check"}]_vars

\* C26: between two consecutive resets of the count at most maxPerInterval
\* calls of Wait return, those released by the earlier reset included.
AdmitsAtMostMaxPerInterval == admitted <= MaxPerIntervalOpt

====
